---- MODULE Spec2Model ----
(***************************************************************************)
(* APIVersioningService (src/unnamed/part_003, lines 181-869): the version *)
(* store, the lifecycle policy engine and the semantic-version helpers of  *)
(* the npm package "semver" that the service calls.                        *)
(*                                                                         *)
(* The model is of one apiId partition of the "-api-versions" table: the   *)
(* table's key is (apiId, version) and every read of the service is a      *)
(* GetItem on that key or a Query on apiId, so a partition is the set of   *)
(* version strings stored for the api.                                     *)
(*                                                                         *)
(* A string is a sequence of one-character strings, so that parsing a      *)
(* version is computed and not assumed.  An optional field of a JSON       *)
(* object is a set with at most one element: {} when the field is absent.  *)
(***************************************************************************)
EXTENDS Integers, Sequences, FiniteSets, TLC

----------------------------------------------------------------------------
(* Strings                                                                 *)

Digits == {"0", "1", "2", "3", "4", "5", "6", "7", "8", "9"}

Letters == {"a", "b", "v"}

\* The value of a decimal digit.
DigitVal(c) ==
  CASE c = "0" -> 0 [] c = "1" -> 1 [] c = "2" -> 2 [] c = "3" -> 3
    [] c = "4" -> 4 [] c = "5" -> 5 [] c = "6" -> 6 [] c = "7" -> 7
    [] c = "8" -> 8 [] c = "9" -> 9

\* The UTF-8 code of a character of the alphabet the inputs are written in.
Ord(c) ==
  CASE c = "+" -> 43 [] c = "-" -> 45 [] c = "." -> 46
    [] c \in Digits -> 48 + DigitVal(c)
    [] c = "a" -> 97 [] c = "b" -> 98 [] c = "v" -> 118

\* s < t in the byte order of strings: -1, 0 or 1.
RECURSIVE StrCmp(_, _)
StrCmp(s, t) ==
  IF s = <<>> /\ t = <<>> THEN 0
  ELSE IF s = <<>> THEN -1
  ELSE IF t = <<>> THEN 1
  ELSE IF Ord(Head(s)) < Ord(Head(t)) THEN -1
  ELSE IF Ord(Head(s)) > Ord(Head(t)) THEN 1
  ELSE StrCmp(Tail(s), Tail(t))

\* The index of the first c in s, or 0 when s has none.
IndexOf(s, c) ==
  IF \E i \in 1..Len(s) : s[i] = c
    THEN CHOOSE i \in 1..Len(s) : s[i] = c /\ \A j \in 1..(i - 1) : s[j] # c
    ELSE 0

\* s.split(c): the pieces of s between the occurrences of c.
RECURSIVE Split(_, _)
Split(s, c) ==
  IF IndexOf(s, c) = 0 THEN <<s>>
  ELSE <<SubSeq(s, 1, IndexOf(s, c) - 1)>>
         \o Split(SubSeq(s, IndexOf(s, c) + 1, Len(s)), c)

----------------------------------------------------------------------------
(* semver: parsing (the strict FULL pattern of the package)                *)

IsDigits(s) == s # <<>> /\ \A i \in 1..Len(s) : s[i] \in Digits

\* NUMERICIDENTIFIER: 0|[1-9]\d*
IsNumericIdentifier(s) == IsDigits(s) /\ (Len(s) = 1 \/ s[1] # "0")

\* [0-9A-Za-z-]+
IsBuildIdentifier(s) ==
  s # <<>> /\ \A i \in 1..Len(s) : s[i] \in Digits \cup Letters \cup {"-"}

\* PRERELEASEIDENTIFIER: a numeric identifier, or an identifier with a
\* letter or hyphen in it.
IsPrereleaseIdentifier(s) ==
  IsBuildIdentifier(s) /\ (IsDigits(s) => IsNumericIdentifier(s))

RECURSIVE ToNumber(_)
ToNumber(s) ==
  IF s = <<>> THEN 0
  ELSE 10 * ToNumber(SubSeq(s, 1, Len(s) - 1)) + DigitVal(s[Len(s)])

\* The text of a version split as v?MAIN(-PRERELEASE)?(+BUILD)?
VersionParts(s) ==
  LET body == IF s # <<>> /\ Head(s) = "v" THEN Tail(s) ELSE s
      plus == IndexOf(body, "+")
      core == IF plus = 0 THEN body ELSE SubSeq(body, 1, plus - 1)
      dash == IndexOf(core, "-")
  IN  [main  |-> IF dash = 0 THEN core ELSE SubSeq(core, 1, dash - 1),
       pre   |-> IF dash = 0 THEN {} ELSE {SubSeq(core, dash + 1, Len(core))},
       build |-> IF plus = 0 THEN {} ELSE {SubSeq(body, plus + 1, Len(body))}]

\* A validation that takes every string.
SemverValidAny(s) == TRUE

\* semver.valid(s) is not null.
SemverValid(s) ==
  LET p == VersionParts(s)
      m == Split(p.main, ".")
  IN  /\ Len(m) = 3
      /\ \A i \in 1..3 : IsNumericIdentifier(m[i])
      /\ \A x \in p.pre :
           \A i \in 1..Len(Split(x, ".")) : IsPrereleaseIdentifier(Split(x, ".")[i])
      /\ \A x \in p.build :
           \A i \in 1..Len(Split(x, ".")) : IsBuildIdentifier(Split(x, ".")[i])

\* new SemVer(s): major, minor, patch and the prerelease identifiers; the
\* build metadata is kept apart and takes no part in comparisons.
SemverParse(s) ==
  LET p == VersionParts(s)
      m == Split(p.main, ".")
  IN  [major |-> ToNumber(m[1]),
       minor |-> ToNumber(m[2]),
       patch |-> ToNumber(m[3]),
       prerelease |-> IF p.pre = {} THEN <<>>
                      ELSE Split(CHOOSE x \in p.pre : TRUE, ".")]

----------------------------------------------------------------------------
(* semver: precedence                                                      *)

\* The version strings callers pass: "1.0.0", "1.0.1", "1.1.0", "2.0.0",
\* "2.1.0-a", and "v1" and "1.0", which are no semantic versions.
s100 == <<"1", ".", "0", ".", "0">>
s101 == <<"1", ".", "0", ".", "1">>
s110 == <<"1", ".", "1", ".", "0">>
s200 == <<"2", ".", "0", ".", "0">>
s210a == <<"2", ".", "1", ".", "0", "-", "a">>
sV1 == <<"v", "1">>
s10 == <<"1", ".", "0">>

VersionStrings == {s100, s101, s110, s200, s210a, sV1, s10}

\* new SemVer(s) for the valid strings, computed once.
Parsed == [s \in {u \in VersionStrings : SemverValid(u)} |-> SemverParse(s)]

NumCmp(a, b) == IF a < b THEN -1 ELSE IF a > b THEN 1 ELSE 0

\* compareIdentifiers: numeric identifiers compare as numbers and come
\* before the others, which compare as strings.
CompareIdentifiers(a, b) ==
  IF IsDigits(a) /\ IsDigits(b) THEN NumCmp(ToNumber(a), ToNumber(b))
  ELSE IF IsDigits(a) THEN -1
  ELSE IF IsDigits(b) THEN 1
  ELSE StrCmp(a, b)

CompareMain(x, y) ==
  IF x.major # y.major THEN NumCmp(x.major, y.major)
  ELSE IF x.minor # y.minor THEN NumCmp(x.minor, y.minor)
  ELSE NumCmp(x.patch, y.patch)

RECURSIVE ComparePreList(_, _)
ComparePreList(p, q) ==
  IF p = <<>> /\ q = <<>> THEN 0
  ELSE IF q = <<>> THEN 1
  ELSE IF p = <<>> THEN -1
  ELSE IF CompareIdentifiers(Head(p), Head(q)) # 0
    THEN CompareIdentifiers(Head(p), Head(q))
  ELSE ComparePreList(Tail(p), Tail(q))

\* SemVer.comparePre: a version with a prerelease comes before the same
\* version without one.
ComparePre(x, y) ==
  IF x.prerelease # <<>> /\ y.prerelease = <<>> THEN -1
  ELSE IF x.prerelease = <<>> /\ y.prerelease # <<>> THEN 1
  ELSE ComparePreList(x.prerelease, y.prerelease)

\* SemVer.compare: the main part, then the prerelease.
CompareParsed(x, y) ==
  IF CompareMain(x, y) # 0 THEN CompareMain(x, y) ELSE ComparePre(x, y)

\* semver.compare(a, b) on version strings.
SemverCompare(a, b) == CompareParsed(Parsed[a], Parsed[b])

\* The body of semver.diff for two versions that differ, high the higher of
\* x and y and low the lower.
DiffKind(x, y, high, low) ==
  IF low.prerelease # <<>> /\ high.prerelease = <<>>
       /\ low.patch = 0 /\ low.minor = 0
    THEN {"major"}
  ELSE IF low.prerelease # <<>> /\ high.prerelease = <<>>
            /\ CompareMain(low, high) = 0
    THEN IF low.minor # 0 /\ low.patch = 0 THEN {"minor"} ELSE {"patch"}
  ELSE IF x.major # y.major
    THEN {IF high.prerelease # <<>> THEN "premajor" ELSE "major"}
  ELSE IF x.minor # y.minor
    THEN {IF high.prerelease # <<>> THEN "preminor" ELSE "minor"}
  ELSE IF x.patch # y.patch
    THEN {IF high.prerelease # <<>> THEN "prepatch" ELSE "patch"}
  ELSE {"prerelease"}

\* semver.diff on parsed versions, cmp their comparison.
DiffParsed(x, y, cmp) ==
  IF cmp = 0 THEN {}
  ELSE DiffKind(x, y, IF cmp > 0 THEN x ELSE y, IF cmp > 0 THEN y ELSE x)

\* semver.diff(a, b): the kind of the difference, {} for null.
SemverDiff(a, b) == DiffParsed(Parsed[a], Parsed[b], SemverCompare(a, b))

----------------------------------------------------------------------------
(* State                                                                   *)

VARIABLES
  versions,        \* the "-api-versions" table: version string -> record
  specifications,  \* the S3 bucket: <<tenantId, version>> -> document
  policy,          \* the "-api-lifecycle-policies" item of the api, if any
  now,             \* the clock read by new Date()
  notifications,   \* versions sendDeprecationNotification was called for
  removed,         \* versions removeDeployment was called for
  migrationPlans,  \* the "-migration-plans" table: plan id -> plan
  result,          \* the outcome of the last call of the service
  returned,        \* the value the last call returned, if any
  calls            \* the calls in flight: client -> the call and its position

vars == <<versions, specifications, policy, now, notifications, removed,
          migrationPlans, result, returned, calls>>

Statuses == {"draft", "published", "deprecated", "retired"}


\* Bounds of the model.
MaxClock == 1
MaxStored == 3
MaxPolicy == 1

\* policy.supportPeriod of the policies the model configures, in days (the
\* unit of the clock).
SupportPeriod == 1

Tenants == {"t1", "t2"}

Documents == {"specA", "specB"}

\* The clients whose requests the service handles at the same time, and the
\* position of a client that has no request in flight.
Clients == {"c1", "c2"}

Idle == [pc |-> "idle"]

\* The plan a caller of deprecateVersion (or of createVersion) passes.
CallerPlan ==
  [reason |-> "caller", migrationGuide |-> "guide", supportEndDate |-> 0,
   replacementVersion |-> {}]

\* The successful outcome and the errors the service throws:
\*   InvalidVersionFormat  'Invalid semantic version format'
\*   DuplicateVersion      'Version already exists'
\*   VersionNotFound       'Version not found'
\*   InvalidTransition     'Only published versions can be deprecated',
\*                         'Only deprecated versions can be retired'
Ok == "ok"

Outcome(op, version, error) == [op |-> op, version |-> version, error |-> error]

----------------------------------------------------------------------------
(* Reads                                                                   *)

\* A sequence without its i-th element.
RemoveAt(seq, i) == SubSeq(seq, 1, i - 1) \o SubSeq(seq, i + 1, Len(seq))

\* The first key in the byte order of the sort key.
FirstKey(keys) == CHOOSE a \in keys : \A b \in keys : StrCmp(a, b) <= 0

\* The keys of a partition in the order a Query returns them: ascending in
\* the byte order of the sort key.
RECURSIVE KeysInOrder(_)
KeysAfter(keys, k) == <<k>> \o KeysInOrder(keys \ {k})

KeysInOrder(keys) == IF keys = {} THEN <<>> ELSE KeysAfter(keys, FirstKey(keys))

\* The records of the keys, in their order.
RecordsOf(table, keys) == [i \in 1..Len(keys) |-> table[keys[i]]]

\* getVersions(apiId): the records of the api, in the order of the Query.
GetVersions(table) == RecordsOf(table, KeysInOrder(DOMAIN table))

\* The index of the record a stable sort with the comparator
\* dir * semver.compare puts first: the first of those no other precedes.
FirstInOrder(recs, dir) ==
  CHOOSE a \in 1..Len(recs) :
    /\ \A b \in 1..Len(recs) :
         dir * SemverCompare(recs[a].version, recs[b].version) <= 0
    /\ \A b \in 1..(a - 1) :
         dir * SemverCompare(recs[b].version, recs[a].version) > 0

\* Array.prototype.sort with the comparator dir * semver.compare: stable, so
\* that records of equal precedence keep their order.
RECURSIVE SortByVersion(_, _)
SortedAfter(recs, dir, i) == <<recs[i]>> \o SortByVersion(RemoveAt(recs, i), dir)

SortByVersion(recs, dir) ==
  IF recs = <<>> THEN <<>> ELSE SortedAfter(recs, dir, FirstInOrder(recs, dir))

\* The first of the records sorted by semver.rcompare, {} when there is none.
LatestOf(all) == IF Len(all) = 0 THEN {} ELSE {SortByVersion(all, -1)[1]}

\* A getVersion that finds nothing.
VersionExistsNever(table, v) == FALSE

\* getVersion(apiId, version) is not null.
VersionExists(table, v) == v \in DOMAIN table

\* A getLatestVersion that looks at the published versions only.
GetLatestPublished(table) ==
  LatestOf(SelectSeq(GetVersions(table), LAMBDA r : r.status = "published"))

\* getLatestVersion(apiId): {} for null.
GetLatestVersion(table) == LatestOf(GetVersions(table))

----------------------------------------------------------------------------
(* Writes                                                                  *)

\* deprecateVersion's update without the plan.
DeprecateUpdateNoPlan(table, v, plan, time) ==
  [table EXCEPT ![v] = [@ EXCEPT !.status = "deprecated",
                                 !.deprecatedAt = {time}]]

\* The UpdateItem of deprecateVersion.
DeprecateUpdate(table, v, plan, time) ==
  [table EXCEPT ![v] = [@ EXCEPT !.status = "deprecated",
                                 !.deprecatedAt = {time},
                                 !.deprecationPlan = {plan}]]

\* A retireVersion whose update drops the deprecation plan.
RetireUpdateDroppingPlan(table, v, time) ==
  [table EXCEPT ![v] = [@ EXCEPT !.status = "retired", !.retiredAt = {time},
                                 !.deprecationPlan = {}]]

\* The UpdateItem of retireVersion.
RetireUpdate(table, v, time) ==
  [table EXCEPT ![v] = [@ EXCEPT !.status = "retired", !.retiredAt = {time}]]

\* deprecateVersion's guard letting a draft through.
DeprecateCheckDraft(table, v) ==
  IF v \notin DOMAIN table THEN "VersionNotFound"
  ELSE IF table[v].status \notin {"draft", "published"}
    THEN "InvalidTransition"
  ELSE Ok

\* deprecateVersion's guard without the test of the status.
DeprecateCheckAnyStatus(table, v) ==
  IF v \notin DOMAIN table THEN "VersionNotFound" ELSE Ok

\* The guard of deprecateVersion: the error it throws, Ok when it goes on.
DeprecateCheck(table, v) ==
  IF ~VersionExists(table, v) THEN "VersionNotFound"
  ELSE IF table[v].status # "published" THEN "InvalidTransition"
  ELSE Ok

\* retireVersion's guard letting a published version through.
RetireCheckSkipping(table, v) ==
  IF v \notin DOMAIN table THEN "VersionNotFound"
  ELSE IF table[v].status \notin {"published", "deprecated"}
    THEN "InvalidTransition"
  ELSE Ok

\* The guard of retireVersion.
RetireCheck(table, v) ==
  IF ~VersionExists(table, v) THEN "VersionNotFound"
  ELSE IF table[v].status # "deprecated" THEN "InvalidTransition"
  ELSE Ok

\* A run of deprecateVersion from a state of the table and the notification
\* log: the state it leaves and its error.
DeprecateRun(st, v, plan, time) ==
  IF DeprecateCheck(st.table, v) # Ok
    THEN [st EXCEPT !.error = DeprecateCheck(st.table, v)]
    ELSE [table |-> DeprecateUpdate(st.table, v, plan, time),
          notified |-> st.notified \cup {v},
          error |-> Ok]

\* The loop of applyLifecyclePolicy over toDeprecate: it stops at the first
\* deprecateVersion that throws.
RECURSIVE DeprecateAll(_, _, _, _)
DeprecateAll(st, todo, plan, time) ==
  IF todo = <<>> \/ st.error # Ok THEN st
  ELSE DeprecateAll(DeprecateRun(st, Head(todo).version, plan, time),
                    Tail(todo), plan, time)

\* The level createVersion derives from the result of semver.diff.
LevelOfDiff(diff) ==
  IF diff = {"major"} THEN "major"
  ELSE IF diff = {"minor"} THEN "minor"
  ELSE "patch"

\* The level against latestVersion, patch when there is none.
LevelFromLatest(latest, v) ==
  IF latest = {} THEN "patch"
  ELSE LevelOfDiff(SemverDiff((CHOOSE r \in latest : TRUE).version, v))

\* The compatibility level createVersion gives a version.
CompatibilityLevel(table, v) == LevelFromLatest(GetLatestVersion(table), v)

\* Array.prototype.slice(0, n) for n >= 0.
SliceTo(seq, n) == SubSeq(seq, 1, IF n > Len(seq) THEN Len(seq) ELSE n)

\* A selection that sorts the published versions newest first.
ToDeprecateNewest(activeVersions, maxVersions) ==
  SliceTo(SortByVersion(activeVersions, -1), Len(activeVersions) - maxVersions)

\* The versions applyLifecyclePolicy deprecates: the oldest of the published
\* ones, as many as exceed maxVersions.
ToDeprecate(activeVersions, maxVersions) ==
  SliceTo(SortByVersion(activeVersions, 1), Len(activeVersions) - maxVersions)

\* The plan applyLifecyclePolicy attaches.
PolicyPlan(p, version, time) ==
  [reason |-> "Exceeded maximum version policy",
   migrationGuide |-> "Please migrate to the latest version",
   supportEndDate |-> time + p.supportPeriod,
   replacementVersion |-> {version}]

\* applyLifecyclePolicy under the policy p, activeVersions the published
\* records.
ApplyPolicy(st, p, activeVersions, version, time) ==
  IF Len(activeVersions) > p.maxVersions
    THEN DeprecateAll(st, ToDeprecate(activeVersions, p.maxVersions),
                      PolicyPlan(p, version, time), time)
    ELSE st

\* applyLifecyclePolicy(version) from a state of the table.
ApplyLifecyclePolicy(st, pol, version, time) ==
  IF pol = {} THEN st
  ELSE ApplyPolicy(st, CHOOSE q \in pol : TRUE,
                   SelectSeq(GetVersions(st.table),
                             LAMBDA r : r.status = "published"),
                   version, time)

\* The item createVersion puts: the caller's fields, compatibilityLevel
\* overwritten.
NewRecord(table, d) ==
  [version |-> d.version, tenantId |-> d.tenantId, status |-> d.status,
   specification |-> d.specification,
   compatibilityLevel |-> CompatibilityLevel(table, d.version),
   deprecatedAt |-> d.deprecatedAt, retiredAt |-> d.retiredAt,
   deprecationPlan |-> d.deprecationPlan, deployment |-> d.deployment]

\* f with key k set to value x.
Put(f, k, x) == [j \in DOMAIN f \cup {k} |-> IF j = k THEN x ELSE f[j]]

----------------------------------------------------------------------------
(* Operations                                                              *)

Init ==
  /\ versions = <<>>
  /\ specifications = <<>>
  /\ policy = {}
  /\ now = 0
  /\ notifications = {}
  /\ removed = {}
  /\ migrationPlans = <<>>
  /\ result = Outcome("none", <<>>, Ok)
  /\ returned = {}
  /\ calls = [c \in Clients |-> Idle]

\* The end of a createVersion that has passed its checks: after is the state
\* applyLifecyclePolicy leaves, apiVersion the record the call returns.
CreateCommit(d, apiVersion, after) ==
  /\ versions' = after.table
  /\ specifications' = Put(specifications, <<d.tenantId, d.version>>,
                           d.specification)
  /\ notifications' = after.notified
  /\ result' = Outcome("createVersion", d.version, after.error)
  /\ returned' = IF after.error = Ok THEN {apiVersion} ELSE {}
  /\ UNCHANGED <<policy, now, removed, migrationPlans, calls>>

\* createVersion from the PutItem of apiVersion on.
CreateStore(d, apiVersion) ==
  CreateCommit(d, apiVersion,
               ApplyLifecyclePolicy(
                 [table |-> Put(versions, d.version, apiVersion),
                  notified |-> notifications, error |-> Ok],
                 policy, d.version, now))

\* A createVersion that throws before it writes.
CreateThrow(d, error) ==
  /\ result' = Outcome("createVersion", d.version, error)
  /\ returned' = {}
  /\ UNCHANGED <<versions, specifications, policy, now, notifications,
                 removed, migrationPlans, calls>>

\* createVersion(versionData), run to its end.
CreateVersion(d) ==
  IF ~SemverValid(d.version) THEN CreateThrow(d, "InvalidVersionFormat")
  ELSE IF VersionExists(versions, d.version)
    THEN CreateThrow(d, "DuplicateVersion")
  ELSE /\ Cardinality(DOMAIN versions) < MaxStored
       /\ CreateStore(d, NewRecord(versions, d))

\* deprecateVersion(apiId, version, deprecationPlan), run to its end.
DeprecateVersion(v, plan) ==
  LET after == DeprecateRun([table |-> versions, notified |-> notifications,
                             error |-> Ok], v, plan, now)
  IN  /\ versions' = after.table
      /\ notifications' = after.notified
      /\ result' = Outcome("deprecateVersion", v, after.error)
      /\ returned' = {}
      /\ UNCHANGED <<specifications, policy, now, removed, migrationPlans,
                     calls>>

\* removeDeployment(apiVersion): the error it throws, Ok when it returns.
\* It reads version.deployment.endpoint, a TypeError on a record without a
\* deployment.
RemoveDeployment(apiVersion) ==
  IF apiVersion.deployment = {} THEN "TypeError" ELSE Ok

\* retireVersion(apiId, version), run to its end.
RetireVersion(v) ==
  IF RetireCheck(versions, v) # Ok
    THEN /\ result' = Outcome("retireVersion", v, RetireCheck(versions, v))
         /\ returned' = {}
         /\ UNCHANGED <<versions, specifications, policy, now, notifications,
                        removed, migrationPlans, calls>>
    ELSE /\ versions' = RetireUpdate(versions, v, now)
         /\ removed' = IF RemoveDeployment(versions[v]) = Ok
                         THEN removed \cup {v} ELSE removed
         /\ result' = Outcome("retireVersion", v, RemoveDeployment(versions[v]))
         /\ returned' = {}
         /\ UNCHANGED <<specifications, policy, now, notifications,
                        migrationPlans, calls>>

\* A tenant admin writes the lifecycle policy of the api.
PutLifecyclePolicy(n) ==
  /\ policy' = {[maxVersions |-> n, supportPeriod |-> SupportPeriod]}
  /\ UNCHANGED <<versions, specifications, now, notifications, removed,
                 migrationPlans, result, returned, calls>>

\* Time passes.
Tick ==
  /\ now < MaxClock
  /\ now' = now + 1
  /\ UNCHANGED <<versions, specifications, policy, notifications, removed,
                 migrationPlans, result, returned, calls>>

----------------------------------------------------------------------------
(* Specifications                                                          *)

\* The deployment of the bodies that carry one.
Deployment == [endpoint |-> "endpoint"]

\* A request body of createVersion.  Callers choose the status and may pass
\* a deprecationPlan and a deployment; the bodies of the model leave
\* deprecatedAt and retiredAt out.
BodyWith(v, t, s, doc, plan, deployment) ==
  [version |-> v, tenantId |-> t, status |-> s, specification |-> doc,
   deprecatedAt |-> {}, retiredAt |-> {}, deprecationPlan |-> plan,
   deployment |-> deployment]

\* A body with a deployment.
Body(v, t, s, doc, plan) == BodyWith(v, t, s, doc, plan, {Deployment})

\* The lifecycle of the records of an api: every status, caller-supplied
\* plans, the clock and the lifecycle policy.
VersionInputs == {s100, s200, sV1}

CreateInputs ==
  {Body(v, "t1", s, "specA", plan) :
     v \in VersionInputs, s \in Statuses, plan \in {{}, {CallerPlan}}}

Next ==
  \/ \E d \in CreateInputs : CreateVersion(d)
  \/ \E v \in VersionInputs : DeprecateVersion(v, CallerPlan)
  \/ \E v \in VersionInputs : RetireVersion(v)
  \/ \E n \in 0..MaxPolicy : PutLifecyclePolicy(n)
  \/ Tick

Spec == Init /\ [][Next]_vars

\* The table and the bucket: documents and tenants of every kind.
StoreCreateInputs ==
  {Body(v, t, s, doc, {}) :
     v \in VersionInputs, t \in Tenants, s \in {"draft", "published"},
     doc \in Documents}

NextStore ==
  \/ \E d \in StoreCreateInputs : CreateVersion(d)
  \/ \E v \in VersionInputs : DeprecateVersion(v, CallerPlan)
  \/ \E v \in VersionInputs : RetireVersion(v)
  \/ \E n \in 0..MaxPolicy : PutLifecyclePolicy(n)

SpecStore == Init /\ [][NextStore]_vars

\* The lifecycle policy over more versions of an api.
PolicyVersionInputs == {s100, s101, s110, s200}

PolicyCreateInputs ==
  {Body(v, "t1", s, "specA", {}) :
     v \in PolicyVersionInputs, s \in {"draft", "published"}}

NextPolicy ==
  \/ \E d \in PolicyCreateInputs : CreateVersion(d)
  \/ \E v \in PolicyVersionInputs : DeprecateVersion(v, CallerPlan)
  \/ \E n \in 0..MaxPolicy : PutLifecyclePolicy(n)

SpecPolicy == Init /\ [][NextPolicy]_vars

\* The compatibility level over version strings of every shape.
CompatCreateInputs ==
  {Body(v, "t1", s, "specA", {}) : v \in VersionStrings, s \in Statuses}

NextCompat == \E d \in CompatCreateInputs : CreateVersion(d)

SpecCompat == Init /\ [][NextCompat]_vars

----------------------------------------------------------------------------
(* Properties of the version store                                         *)

Rank(s) ==
  CASE s = "draft" -> 0 [] s = "published" -> 1 [] s = "deprecated" -> 2
    [] s = "retired" -> 3

\* A step that is a call of op: the calls record their outcome, and a call
\* that leaves the outcome as it was leaves everything as it was.
Called(op) == result' # result /\ result'.op = op

\* C1: with the calls run one at a time, no call moves a stored status to an
\* earlier one of draft, published, deprecated, retired, no record is
\* removed, and a retired record stays retired.
C1_StatusOnlyMovesForward ==
  [][\A v \in DOMAIN versions :
       /\ v \in DOMAIN versions'
       /\ Rank(versions'[v].status) >= Rank(versions[v].status)
       /\ versions[v].status = "retired" => versions'[v].status = "retired"]_vars

\* C1 witness: a record the service has deprecated and then retired, and a
\* later call on it.
C1_Witness ==
  \E v \in DOMAIN versions :
    /\ v \in notifications /\ v \in removed
    /\ versions[v].status = "retired"
    /\ result = Outcome("deprecateVersion", v, "InvalidTransition")

\* C2: deprecateVersion succeeds exactly when the stored status is
\* published; then the record is deprecated, with deprecatedAt set to the
\* time of the call and the given plan attached; otherwise the call fails,
\* the table is left as it was and no notification is sent.
C2_DeprecateOnlyPublished ==
  [][\A v \in VersionStrings :
       (Called("deprecateVersion") /\ result'.version = v) =>
         IF v \in DOMAIN versions /\ versions[v].status = "published"
           THEN /\ result'.error = Ok
                /\ versions'[v].status = "deprecated"
                /\ versions'[v].deprecatedAt = {now}
                /\ versions'[v].deprecationPlan = {CallerPlan}
           ELSE /\ result'.error =
                     (IF v \in DOMAIN versions THEN "InvalidTransition"
                      ELSE "VersionNotFound")
                /\ versions' = versions
                /\ notifications' = notifications]_vars

\* C2 witness: a published record that a call of deprecateVersion has
\* deprecated.
C2_Witness ==
  /\ result.op = "deprecateVersion" /\ result.error = Ok
  /\ versions[result.version].status = "deprecated"
  /\ versions[result.version].deprecationPlan = {CallerPlan}
  /\ result.version \in notifications

C9_RetiredAtImpliesDeprecatedAt ==
  \A v \in DOMAIN versions :
    versions[v].retiredAt # {} =>
      /\ versions[v].deprecatedAt # {}
      /\ \A r \in versions[v].retiredAt :
           \A d \in versions[v].deprecatedAt : d <= r

\* C10: a record has a deprecationPlan only in status deprecated or retired.
C10_PlanOnlyWhenDeprecated ==
  \A v \in DOMAIN versions :
    versions[v].deprecationPlan # {} =>
      versions[v].status \in {"deprecated", "retired"}

\* C4: with the calls run one at a time, createVersion for a version that is
\* already stored fails with DuplicateVersion, and leaves the table, the
\* stored specifications and the notification log as they were: no record is
\* overwritten and the lifecycle policy deprecates nothing.
C4_DuplicateVersionRejected ==
  [][\A v \in VersionStrings :
       (Called("createVersion") /\ result'.version = v /\ v \in DOMAIN versions)
         => /\ result'.error = "DuplicateVersion"
            /\ versions' = versions
            /\ specifications' = specifications
            /\ notifications' = notifications]_vars

\* C4 witness: a duplicate createVersion has failed while the policy had
\* published versions to deprecate, and they are still published.
C4_Witness ==
  /\ result.op = "createVersion" /\ result.error = "DuplicateVersion"
  /\ result.version \in DOMAIN versions
  /\ \E p \in policy :
       Cardinality({v \in DOMAIN versions : versions[v].status = "published"})
         > p.maxVersions

\* The strings of the inputs that are no semantic versions: "v1" and "1.0".
MalformedVersions == {sV1, s10}

\* C5: createVersion with a version string that is no semantic version fails
\* with InvalidVersionFormat and writes nothing: no record, no specification,
\* no deprecation.
C5_InvalidVersionRejected ==
  [][\A v \in MalformedVersions :
       (Called("createVersion") /\ result'.version = v)
         => /\ result'.error = "InvalidVersionFormat"
            /\ versions' = versions
            /\ specifications' = specifications
            /\ notifications' = notifications]_vars

\* C5 witness: createVersion has failed on "v1" with versions stored.
C5_Witness ==
  /\ result = Outcome("createVersion", sV1, "InvalidVersionFormat")
  /\ Cardinality(DOMAIN versions) >= 2
  /\ sV1 \notin DOMAIN versions

----------------------------------------------------------------------------
(* Properties of the compatibility level                                   *)

\* The level by the numbers of two versions: major when the major numbers
\* differ, else minor when the minor numbers differ, else patch.
LevelByNumbers(a, b) ==
  IF Parsed[a].major # Parsed[b].major THEN "major"
  ELSE IF Parsed[a].minor # Parsed[b].minor THEN "minor"
  ELSE "patch"

\* The level createVersion derives from semver.diff against a baseline taken
\* from a set of stored versions: the one of highest precedence.
LevelAgainst(candidates, new) ==
  IF candidates = {} THEN "patch"
  ELSE LET diff == SemverDiff(CHOOSE u \in candidates :
                                \A w \in candidates : SemverCompare(w, u) <= 0,
                              new)
       IN  IF "major" \in diff THEN "major"
           ELSE IF "minor" \in diff THEN "minor"
           ELSE "patch"

\* The versions stored beside the one the last call was about.
Others == DOMAIN versions \ {result.version}

Created == result.op = "createVersion" /\ result.error = Ok

\* C6: creating v1 and then v2 > v1 with nothing else stored gives v2 the
\* level major when the major numbers differ, else minor when the minor
\* numbers differ, else patch, pre-release versions included; the first
\* version of an api gets patch.
C6_LevelFollowsNumbers ==
  Created =>
    /\ Others = {} => versions[result.version].compatibilityLevel = "patch"
    /\ \A v1 \in Others :
         (Others = {v1} /\ SemverCompare(v1, result.version) < 0) =>
           versions[result.version].compatibilityLevel
             = LevelByNumbers(v1, result.version)

----------------------------------------------------------------------------
(* Properties of the lifecycle policy                                      *)

Published(table) == {v \in DOMAIN table : table[v].status = "published"}

\* C8: under a policy with maxVersions = N, a createVersion that brings the
\* published versions to N + k, k >= 1, deprecates exactly the k published
\* versions of lowest precedence and leaves exactly N published; it touches
\* no other record.  The created version counts among the published when it
\* was created published, also when the policy deprecates it in the same
\* call.
C8_PolicyDeprecatesOldest ==
  [][\A p \in policy :
       (Called("createVersion") /\ result'.error = Ok) =>
         LET new == result'.version
             counted == \/ versions'[new].status = "published"
                        \/ /\ versions'[new].status = "deprecated"
                           /\ new \in notifications'
             before == Published(versions) \cup (IF counted THEN {new} ELSE {})
             k == Cardinality(before) - p.maxVersions
             gone == {v \in before : versions'[v].status = "deprecated"}
         IN  k >= 1 =>
               /\ Cardinality(gone) = k
               /\ Published(versions') = before \ gone
               /\ Cardinality(Published(versions')) = p.maxVersions
               /\ \A a \in gone : \A b \in before \ gone : SemverCompare(a, b) <= 0
               /\ \A v \in DOMAIN versions \ before : versions'[v] = versions[v]]_vars

\* C8 witness: under a policy with maxVersions >= 1, a createVersion has
\* deprecated two versions at once and left maxVersions published.
C8_Witness ==
  /\ Created
  /\ \E p \in policy :
       /\ p.maxVersions >= 1
       /\ Cardinality(Published(versions)) = p.maxVersions
  /\ Cardinality({v \in DOMAIN versions :
                    /\ versions[v].status = "deprecated"
                    /\ \E q \in versions[v].deprecationPlan :
                         q.replacementVersion = {result.version}}) >= 2

----------------------------------------------------------------------------
(* The side effects of deprecateVersion and retireVersion                  *)

\* Bodies with and without a deployment, in the statuses that lead to a
\* retirement.
EffectVersionInputs == {s100, s200}

EffectCreateInputs ==
  {BodyWith(v, "t1", s, "specA", {}, dep) :
     v \in EffectVersionInputs, s \in {"published", "deprecated"},
     dep \in {{}, {Deployment}}}

NextEffects ==
  \/ \E d \in EffectCreateInputs : CreateVersion(d)
  \/ \E v \in EffectVersionInputs : DeprecateVersion(v, CallerPlan)
  \/ \E v \in EffectVersionInputs : RetireVersion(v)
  \/ Tick

SpecEffects == Init /\ [][NextEffects]_vars

\* C11: a call of deprecateVersion or retireVersion that has written its
\* change of status returns without an error, whatever becomes of the
\* notification or of the removal of the deployment.
C11_SideEffectFailureCaught ==
  [][\A v \in DOMAIN versions :
       /\ Called("deprecateVersion") \/ Called("retireVersion")
       /\ result'.version = v
       /\ versions'[v].status # versions[v].status
       => result'.error = Ok]_vars

----------------------------------------------------------------------------
(* OpenAPI documents                                                       *)

\* A JSON object is the sequence of its entries, in the order of Object.keys;
\* an optional member is a set of at most one element, {} for undefined.
Entry(key, value) == [key |-> key, value |-> value]

\* Object.keys(obj).
ObjectKeys(obj) == [i \in 1..Len(obj) |-> obj[i].key]

\* Array.prototype.includes.
Includes(seq, x) == \E i \in 1..Len(seq) : seq[i] = x

\* obj[key].
Member(obj, key) ==
  {obj[i].value : i \in {j \in 1..Len(obj) : obj[j].key = key}}

\* The sequences of the sequences in seqs, one after the other.
RECURSIVE Flatten(_)
Flatten(seqs) ==
  IF seqs = <<>> THEN <<>> ELSE Head(seqs) \o Flatten(Tail(seqs))

\* An operation of a path: without responses, with responses that have no
\* '200', with a '200' without content, and with a '200' of a content.
OpNoResponses == [responses |-> {}]

OpNoSuccess == [responses |-> {[success |-> {}]}]

OpNoContent == [responses |-> {[success |-> {[content |-> {}]}]}]

OpContent(content) == [responses |-> {[success |-> {[content |-> {content}]}]}]

\* The content of a response: its media type and the name of its schema.
Content(schema) == <<Entry("application/json", schema)>>

\* A specification: paths is {} when the document has no paths member.
Specification(paths) == [paths |-> paths]

\* spec.paths || {}.
PathsOf(spec) == IF spec.paths = {} THEN <<>> ELSE CHOOSE p \in spec.paths : TRUE

\* spec.paths[path] || {}.
PathItem(spec, path) ==
  IF Member(PathsOf(spec), path) = {} THEN <<>>
  ELSE CHOOSE item \in Member(PathsOf(spec), path) : TRUE

\* spec.paths[path][method]?.responses.
ResponsesOf(spec, path, method) ==
  UNION {op.responses : op \in Member(PathItem(spec, path), method)}

\* responses['200']?.content.
SuccessContent(responses) == UNION {r.content : r \in responses.success}

\* The text of the members of an object, from the i-th on.
RECURSIVE JsonMembers(_, _)
JsonMembers(obj, i) ==
  IF i > Len(obj) THEN <<>>
  ELSE (IF i > 1 THEN <<",">> ELSE <<>>)
       \o <<"\"", obj[i].key, "\"", ":", "\"", obj[i].value, "\"">>
       \o JsonMembers(obj, i + 1)

\* JSON.stringify(value) of an optional object: undefined for undefined.
JsonStringify(value) ==
  {<<"{">> \o JsonMembers(obj, 1) \o <<"}">> : obj \in value}

\* String.prototype.toUpperCase on the names of the methods.
ToUpperCase(method) ==
  CASE method = "get" -> "GET" [] method = "post" -> "POST"

----------------------------------------------------------------------------
(* compareVersions                                                         *)

RemovedEndpoint(path) ==
  [type |-> "removed-endpoint", path |-> <<path>>, severity |-> "critical"]

ChangedResponseFormat(method, path) ==
  [type |-> "changed-response-format", path |-> <<ToUpperCase(method), path>>,
   severity |-> "high"]

\* A first loop that reports the paths of the second specification that the
\* first lacks.
RemovedEndpointsAdded(paths1, paths2) ==
  [i \in 1..Len(SelectSeq(paths2, LAMBDA p : ~Includes(paths1, p))) |->
     RemovedEndpoint(SelectSeq(paths2, LAMBDA p : ~Includes(paths1, p))[i])]

\* The findings of the first loop: a path of paths1 that paths2 lacks.
RemovedEndpointsAmong(paths1, paths2) ==
  [i \in 1..Len(SelectSeq(paths1, LAMBDA p : ~Includes(paths2, p))) |->
     RemovedEndpoint(SelectSeq(paths1, LAMBDA p : ~Includes(paths2, p))[i])]

RemovedEndpoints(spec1, spec2) ==
  RemovedEndpointsAmong(ObjectKeys(PathsOf(spec1)), ObjectKeys(PathsOf(spec2)))

\* A compareVersions that reports every method of both that has responses on
\* both sides.
ResponseChangedAlways(responses1, responses2) ==
  responses1 # {} /\ responses2 # {}

\* The test of the second loop on a method of both: both sides have
\* responses and the texts of their '200' contents differ.
ResponseChanged(responses1, responses2) ==
  /\ responses1 # {} /\ responses2 # {}
  /\ JsonStringify(SuccessContent(CHOOSE r \in responses1 : TRUE))
       # JsonStringify(SuccessContent(CHOOSE r \in responses2 : TRUE))

\* The methods of a path the second loop reports.
ChangedMethods(spec1, spec2, path) ==
  SelectSeq(ObjectKeys(PathItem(spec2, path)),
            LAMBDA m : /\ Includes(ObjectKeys(PathItem(spec1, path)), m)
                       /\ ResponseChanged(ResponsesOf(spec1, path, m),
                                          ResponsesOf(spec2, path, m)))

FindingsOfMethods(methods, path) ==
  [i \in 1..Len(methods) |-> ChangedResponseFormat(methods[i], path)]

\* The findings of the second loop for a path of paths2.
ChangedResponsesOf(spec1, spec2, path) ==
  IF Includes(ObjectKeys(PathsOf(spec1)), path)
    THEN FindingsOfMethods(ChangedMethods(spec1, spec2, path), path)
    ELSE <<>>

ChangedResponsesAmong(spec1, spec2, paths2) ==
  Flatten([i \in 1..Len(paths2) |-> ChangedResponsesOf(spec1, spec2, paths2[i])])

ChangedResponses(spec1, spec2) ==
  ChangedResponsesAmong(spec1, spec2, ObjectKeys(PathsOf(spec2)))

\* analyzeBreakingChanges(spec1, spec2).
AnalyzeBreakingChanges(spec1, spec2) ==
  RemovedEndpoints(spec1, spec2) \o ChangedResponses(spec1, spec2)

\* The deduction of a finding.
Deduction(severity) ==
  CASE severity = "critical" -> 25 [] severity = "high" -> 15
    [] severity = "medium" -> 10 [] severity = "low" -> 5 [] OTHER -> 0

\* scoreDeduction after the forEach.
RECURSIVE ScoreDeduction(_)
ScoreDeduction(changes) ==
  IF changes = <<>> THEN 0
  ELSE Deduction(Head(changes).severity) + ScoreDeduction(Tail(changes))

\* A score without its floor.
MaxOfSecond(a, b) == b

\* Math.max.
Max(a, b) == IF a >= b THEN a ELSE b

\* A report that keeps the compatible = true it starts with.
CompatibilityReportInitial(version1, version2, breakingChanges) ==
  [version1 |-> version1, version2 |-> version2,
   compatible |-> TRUE,
   breakingChanges |-> breakingChanges,
   warnings |-> <<>>,
   score |-> Max(0, 100 - ScoreDeduction(breakingChanges))]

\* The report compareVersions returns for the findings.
CompatibilityReport(version1, version2, breakingChanges) ==
  [version1 |-> version1, version2 |-> version2,
   compatible |-> Len(breakingChanges) = 0,
   breakingChanges |-> breakingChanges,
   warnings |-> <<>>,
   score |-> Max(0, 100 - ScoreDeduction(breakingChanges))]

\* compareVersions' guard: the error it throws, Ok when it goes on.
CompareCheck(table, version1, version2) ==
  IF ~VersionExists(table, version1) \/ ~VersionExists(table, version2)
    THEN "VersionNotFound" ELSE Ok

\* The report of compareVersions for two stored versions.
CompareReport(table, version1, version2) ==
  CompatibilityReport(version1, version2,
                      AnalyzeBreakingChanges(table[version1].specification,
                                             table[version2].specification))

\* compareVersions(apiId, version1, version2), run to its end.
CompareVersions(version1, version2) ==
  /\ result' = Outcome("compareVersions", <<version1, version2>>,
                       CompareCheck(versions, version1, version2))
  /\ returned' = IF CompareCheck(versions, version1, version2) = Ok
                   THEN {CompareReport(versions, version1, version2)} ELSE {}
  /\ UNCHANGED <<versions, specifications, policy, now, notifications, removed,
                 migrationPlans, calls>>

----------------------------------------------------------------------------
(* Specifications of compareVersions                                       *)

\* The operations of GET /a and of POST /a in the documents of the model.
GetOperations ==
  {OpNoResponses, OpNoSuccess, OpNoContent,
   OpContent(Content("A")), OpContent(Content("B"))}

PostOperations == {OpContent(Content("A")), OpContent(Content("B"))}

\* The path items of /a: every choice of its methods and their operations.
PathItems ==
  {<<>>}
    \cup {<<Entry("get", g)>> : g \in GetOperations}
    \cup {<<Entry("post", p)>> : p \in PostOperations}
    \cup {<<Entry("get", g), Entry("post", p)>> :
            g \in GetOperations, p \in PostOperations}

\* The path maps over /a and /b: /a with any of its items or left out, /b
\* with one item or left out.
NarrowPaths ==
  {a \o b : a \in {<<>>} \cup {<<Entry("/a", item)>> : item \in PathItems},
            b \in {<<>>, <<Entry("/b", <<Entry("get", OpContent(Content("A")))>>)>>}}

\* A path map of five paths, each GET with the same content.
WidePaths(schema) ==
  [i \in 1..5 |->
     Entry(<<"/a", "/b", "/c", "/d", "/e">>[i],
           <<Entry("get", OpContent(Content(schema)))>>)]

\* The documents of the model: one without a paths member, the narrow ones
\* and the wide ones.
OpenApiDocuments ==
  {Specification({})}
    \cup {Specification({paths}) : paths \in NarrowPaths}
    \cup {Specification({WidePaths(schema)}) : schema \in {"A", "B"}}

CompareVersionInputs == {s100, s200}

CompareCreateInputs ==
  {Body(v, "t1", "published", doc, {}) :
     v \in CompareVersionInputs, doc \in OpenApiDocuments}

NextCompare ==
  \/ \E d \in CompareCreateInputs : CreateVersion(d)
  \/ \E v1, v2 \in CompareVersionInputs : CompareVersions(v1, v2)

SpecCompare == Init /\ [][NextCompare]_vars

----------------------------------------------------------------------------
(* Properties of compareVersions                                           *)

\* The last call was a compareVersions that returned a report.
Compared == result.op = "compareVersions" /\ result.error = Ok

\* The specifications of the two versions the last call compared.
SpecA == versions[result.version[1]].specification

SpecB == versions[result.version[2]].specification

\* The paths of a specification, as a set.
PathSet(spec) == {PathsOf(spec)[i].key : i \in 1..Len(PathsOf(spec))}

\* The findings of a report that satisfy a test, as the set of their places
\* in the list.
FindingsWhere(report, Test(_)) ==
  {i \in 1..Len(report.breakingChanges) : Test(report.breakingChanges[i])}

\* C12: compareVersions of two stored versions with identical
\* specifications, a version and itself included, returns compatible = true,
\* no breaking change and the score 100.
C12_IdenticalSpecificationsCompatible ==
  (Compared /\ SpecA = SpecB) =>
    \A report \in returned :
      /\ report.compatible = TRUE
      /\ report.breakingChanges = <<>>
      /\ report.score = 100

\* C12 witness: two different versions with the same specification, which
\* has paths, methods and a success content, have been compared.
C12_Witness ==
  /\ Compared /\ SpecA = SpecB
  /\ result.version[1] # result.version[2]
  /\ \E path \in PathSet(SpecA) :
       \E m \in {"get", "post"} :
         \E r \in ResponsesOf(SpecA, path, m) : SuccessContent(r) # {}
  /\ \E report \in returned : report.score = 100

\* C13: the report has exactly one finding removed-endpoint, of severity
\* critical, for each path of A's path map that B's lacks, and none for any
\* other path; when B is A without one of its paths, the score is 75.
C13_RemovedEndpointPerMissingPath ==
  Compared =>
    \A report \in returned :
      /\ \A path \in PathSet(SpecA) \cup PathSet(SpecB) :
           /\ Cardinality(FindingsWhere(report,
                LAMBDA f : f.type = "removed-endpoint" /\ f.path = <<path>>))
                = (IF path \in PathSet(SpecA) \ PathSet(SpecB) THEN 1 ELSE 0)
           /\ \A i \in FindingsWhere(report,
                LAMBDA f : f.type = "removed-endpoint" /\ f.path = <<path>>) :
                report.breakingChanges[i].severity = "critical"
      /\ \A i \in FindingsWhere(report, LAMBDA f : f.type = "removed-endpoint") :
           report.breakingChanges[i].path[1] \in PathSet(SpecA) \ PathSet(SpecB)
      /\ (\E i \in 1..Len(PathsOf(SpecA)) :
            PathsOf(SpecB) = RemoveAt(PathsOf(SpecA), i) /\ SpecB.paths # {})
           => report.score = 75

\* C13 witness: B is A without one of its two paths, and the report has the
\* one finding and the score 75.
C13_Witness ==
  /\ Compared
  /\ Len(PathsOf(SpecA)) = 2 /\ Len(PathsOf(SpecB)) = 1
  /\ \E i \in 1..2 : PathsOf(SpecB) = RemoveAt(PathsOf(SpecA), i)
  /\ \E report \in returned :
       /\ Len(report.breakingChanges) = 1
       /\ report.breakingChanges[1].type = "removed-endpoint"
       /\ report.score = 75

\* The methods of a path of a specification, as a set.
MethodSet(spec, path) ==
  {PathItem(spec, path)[i].key : i \in 1..Len(PathItem(spec, path))}

\* The content of the '200' response of an operation, {} when the operation
\* has no such content or no responses at all.
OperationContent(spec, path, method) ==
  UNION {SuccessContent(r) : r \in ResponsesOf(spec, path, method)}

\* C14: for every path of both specifications and every method of both under
\* it, the report has a finding changed-response-format of severity high
\* when the '200' contents of the two differ, also when one side has no
\* response definition at all, and has no such finding when they are equal.
C14_ResponseChangeReported ==
  Compared =>
    \A report \in returned :
      \A path \in PathSet(SpecA) \cap PathSet(SpecB) :
        \A m \in MethodSet(SpecA, path) \cap MethodSet(SpecB, path) :
          (\E i \in 1..Len(report.breakingChanges) :
             report.breakingChanges[i] = ChangedResponseFormat(m, path))
            <=> (OperationContent(SpecA, path, m)
                   # OperationContent(SpecB, path, m))

\* The number of findings of a severity in a report.
Count(report, severity) ==
  Cardinality(FindingsWhere(report, LAMBDA f : f.severity = severity))

\* C15: the score of a report is max(0, 100 - (25 per critical finding + 15
\* per high + 10 per medium + 5 per low)), an integer from 0 to 100.
C15_ScoreIsFlooredDeduction ==
  Compared =>
    \A report \in returned :
      /\ report.score \in 0..100
      /\ LET deduction == 25 * Count(report, "critical")
                            + 15 * Count(report, "high")
                            + 10 * Count(report, "medium")
                            + 5 * Count(report, "low")
         IN  report.score = (IF deduction > 100 THEN 0 ELSE 100 - deduction)

\* C15 witness: a report with findings of both severities that cost more
\* than 100 together, with the score 0.
C15_Witness ==
  /\ Compared
  /\ \E report \in returned :
       /\ 25 * Count(report, "critical") + 15 * Count(report, "high") > 100
       /\ Count(report, "critical") > 0 /\ Count(report, "high") > 0
       /\ report.score = 0

\* C16: in a report, compatible is true exactly when the list of breaking
\* changes is empty, which is exactly when the score is 100; the warnings
\* have no part in it, compatible being settled by the breaking changes.
C16_CompatibleIffNoBreakingChange ==
  Compared =>
    \A report \in returned :
      /\ report.compatible <=> report.breakingChanges = <<>>
      /\ report.breakingChanges = <<>> <=> report.score = 100

\* C16 witness: a report that is not compatible, with one finding of
\* severity high and the score 85.
C16_Witness ==
  /\ Compared
  /\ \E report \in returned :
       /\ ~report.compatible
       /\ Len(report.breakingChanges) = 1
       /\ report.breakingChanges[1].severity = "high"
       /\ report.score = 85

----------------------------------------------------------------------------
(* createMigrationPlan                                                     *)

\* A bound of the model: the plans the table holds.
MaxPlans == 1

\* The suffixes Math.random() gives the identifiers of the plans.
RandomSuffixes == {"r1", "r2"}

\* The strategies of MigrationPlan and a string that is none of them.
Strategies == {"blue-green", "canary", "rolling", "immediate", "other"}

\* validation of a step.
StepValidation(healthCheck, contractTests, performanceTests) ==
  [healthCheck |-> healthCheck, contractTests |-> contractTests,
   performanceTests |-> performanceTests]

\* A step as generateMigrationSteps writes it; the description and the
\* commands, fixed texts per step, are left out.
Step(id, name, type, dependencies, validation) ==
  [id |-> id, name |-> name, type |-> type, status |-> "pending",
   dependencies |-> dependencies, validation |-> validation]

\* The preparation step every plan starts with.
PreparationStep ==
  Step("prep-1", "Pre-deployment Validation", "preparation", <<>>,
       StepValidation(TRUE, TRUE, FALSE))

\* The steps the switch adds for a strategy.
DeploymentSteps(strategy) ==
  CASE strategy = "blue-green" ->
         <<Step("deploy-1", "Deploy Green Environment", "deployment",
                <<"prep-1">>, StepValidation(TRUE, TRUE, TRUE)),
           Step("deploy-2", "Switch Traffic", "deployment",
                <<"deploy-1">>, StepValidation(TRUE, FALSE, TRUE))>>
    [] strategy = "canary" ->
         <<Step("deploy-1", "Deploy Canary (10%)", "deployment",
                <<"prep-1">>, StepValidation(TRUE, TRUE, TRUE)),
           Step("deploy-2", "Increase to 50%", "deployment",
                <<"deploy-1">>, StepValidation(TRUE, FALSE, TRUE)),
           Step("deploy-3", "Full Deployment", "deployment",
                <<"deploy-2">>, StepValidation(TRUE, FALSE, TRUE))>>
    [] OTHER -> <<>>

\* A cleanup step that depends on the preparation step.
CleanupDependsOnPreparation(steps) == <<"prep-1">>

\* The dependencies of the cleanup step: the last of the steps before it.
CleanupDependencies(steps) == <<steps[Len(steps)].id>>

\* The cleanup step pushed after the steps.
CleanupStep(steps) ==
  Step("cleanup-1", "Cleanup Old Resources", "cleanup",
       CleanupDependencies(steps), StepValidation(FALSE, FALSE, FALSE))

\* Steps with the cleanup step put first.
WithCleanupFirst(steps) == <<CleanupStep(steps)>> \o steps

\* The steps with the cleanup step pushed.
WithCleanup(steps) == steps \o <<CleanupStep(steps)>>

\* generateMigrationSteps(strategy, compatibilityReport).
GenerateMigrationSteps(strategy, compatibilityReport) ==
  WithCleanup(<<PreparationStep>> \o DeploymentSteps(strategy))

\* generateValidationTests(phase, fromVersion, toVersion): the names and
\* types of the tests.
GenerateValidationTests(phase, fromVersion, toVersion) ==
  <<[name |-> "Health Check", type |-> "integration"],
    [name |-> "API Compatibility", type |-> "contract"]>>
    \o (IF phase = "post"
          THEN <<[name |-> "Performance Baseline", type |-> "performance"]>>
          ELSE <<>>)

\* The plan createMigrationPlan builds.
MigrationPlan(id, fromVersion, toVersion, strategy, compatibilityReport, time) ==
  [id |-> id, fromVersion |-> fromVersion, toVersion |-> toVersion,
   tenantId |-> "", status |-> "planned", createdAt |-> time,
   strategy |-> strategy,
   steps |-> GenerateMigrationSteps(strategy, compatibilityReport),
   rollbackPlan |->
     [enabled |-> TRUE,
      conditions |-> <<"error-rate > 5%", "response-time > 2000ms">>,
      steps |-> <<"Stop traffic to new version",
                  "Route all traffic to old version", "Investigate issues">>],
   validation |->
     [preDeployment |-> GenerateValidationTests("pre", fromVersion, toVersion),
      postDeployment |-> GenerateValidationTests("post", fromVersion, toVersion),
      contractTests |-> <<"contract-test-suite">>],
   metrics |-> [successRate |-> 0, errorRate |-> 0, performanceImpact |-> 0]]

\* A createMigrationPlan that refuses a pair with breaking changes.
MigrationCheckCompatible(table, fromVersion, toVersion) ==
  IF CompareCheck(table, fromVersion, toVersion) # Ok THEN "VersionNotFound"
  ELSE IF ~CompareReport(table, fromVersion, toVersion).compatible
    THEN "Incompatible"
  ELSE Ok

\* The error createMigrationPlan throws, Ok when it goes on: that of
\* compareVersions.
MigrationCheck(table, fromVersion, toVersion) ==
  CompareCheck(table, fromVersion, toVersion)

\* A createMigrationPlan that stores its plan whatever compareVersions does.
PlansAfterAlways(plans, error, id, fromVersion, toVersion, strategy, time) ==
  Put(plans, id, MigrationPlan(id, fromVersion, toVersion, strategy, {}, time))

\* The table of the plans after a createMigrationPlan that met the error.
PlansAfter(plans, error, id, fromVersion, toVersion, strategy, time) ==
  IF error # Ok THEN plans
  ELSE Put(plans, id,
           MigrationPlan(id, fromVersion, toVersion, strategy,
                         {CompareReport(versions, fromVersion, toVersion)}, time))

\* The end of a createMigrationPlan: the plan it has put is the one it
\* returns.
MigrationCommit(fromVersion, toVersion, id, error) ==
  /\ result' = Outcome("createMigrationPlan", <<fromVersion, toVersion>>, error)
  /\ returned' = IF error = Ok THEN {migrationPlans'[id]} ELSE {}
  /\ UNCHANGED <<versions, specifications, policy, now, notifications, removed,
                 calls>>

\* createMigrationPlan(apiId, fromVersion, toVersion, strategy), run to its
\* end; suffix is the draw of Math.random().
CreateMigrationPlan(fromVersion, toVersion, strategy, suffix) ==
  /\ \/ <<now, suffix>> \in DOMAIN migrationPlans
     \/ Cardinality(DOMAIN migrationPlans) < MaxPlans
     \/ MigrationCheck(versions, fromVersion, toVersion) # Ok
  /\ migrationPlans' =
       PlansAfter(migrationPlans,
                  MigrationCheck(versions, fromVersion, toVersion),
                  <<now, suffix>>, fromVersion, toVersion, strategy, now)
  /\ MigrationCommit(fromVersion, toVersion, <<now, suffix>>,
                     MigrationCheck(versions, fromVersion, toVersion))

----------------------------------------------------------------------------
(* Specifications of createMigrationPlan                                   *)

\* Two documents: a pair of them is identical, compatible, or has breaking
\* changes that bring the score to 0.
MigrateDocuments == {Specification({}), Specification({WidePaths("A")})}

MigrateCreateInputs ==
  {Body(v, "t1", "published", doc, {}) :
     v \in CompareVersionInputs, doc \in MigrateDocuments}

\* The versions the callers of compareVersions and createMigrationPlan name:
\* the ones that get created and one that never is.
PlanVersionInputs == CompareVersionInputs \cup {s110}

NextMigrate ==
  \/ \E d \in MigrateCreateInputs : CreateVersion(d)
  \/ \E v1 \in CompareVersionInputs, v2 \in PlanVersionInputs :
       CompareVersions(v1, v2)
  \/ \E v1 \in CompareVersionInputs, v2 \in PlanVersionInputs :
       \E strategy \in Strategies, suffix \in RandomSuffixes :
         CreateMigrationPlan(v1, v2, strategy, suffix)

SpecMigrate == Init /\ [][NextMigrate]_vars

----------------------------------------------------------------------------
(* Properties of createMigrationPlan                                       *)

\* A step that is a call of compareVersions or of createMigrationPlan.
PairCalled(op) ==
  /\ result'.op = op
  /\ <<result, returned, migrationPlans>>' # <<result, returned, migrationPlans>>

\* The last call was a createMigrationPlan that returned a plan.
Planned == result.op = "createMigrationPlan" /\ result.error = Ok

\* C17: compareVersions for a pair of which a version is not stored fails
\* with VersionNotFound and returns no report; createMigrationPlan for such
\* a pair fails the same way and stores no plan.
C17_MissingVersionRejected ==
  [][\A v1, v2 \in PlanVersionInputs :
       /\ PairCalled("compareVersions") \/ PairCalled("createMigrationPlan")
       /\ result'.version = <<v1, v2>>
       /\ v1 \notin DOMAIN versions \/ v2 \notin DOMAIN versions
       => /\ result'.error = "VersionNotFound"
          /\ returned' = {}
          /\ migrationPlans' = migrationPlans]_vars

\* C17 witness: with two versions and a plan stored, createMigrationPlan has
\* failed for a pair whose second version is not stored, and the table holds
\* the plan it held.
C17_Witness ==
  /\ result.op = "createMigrationPlan" /\ result.error = "VersionNotFound"
  /\ result.version[1] \in DOMAIN versions
  /\ result.version[2] \notin DOMAIN versions
  /\ returned = {}
  /\ Cardinality(DOMAIN migrationPlans) = 1
  /\ \A id \in DOMAIN migrationPlans :
       migrationPlans[id].toVersion # result.version[2]

\* C18: createMigrationPlan for two stored versions succeeds and stores a
\* plan in status planned with every step pending, whatever breaking changes
\* the comparison finds.
C18_PlanStoredWhateverTheReport ==
  [][\A v1, v2 \in PlanVersionInputs :
       /\ PairCalled("createMigrationPlan")
       /\ result'.version = <<v1, v2>>
       /\ v1 \in DOMAIN versions /\ v2 \in DOMAIN versions
       => /\ result'.error = Ok
          /\ \E plan \in returned' :
               /\ plan.id \in DOMAIN migrationPlans'
               /\ migrationPlans'[plan.id] = plan
               /\ plan.fromVersion = v1 /\ plan.toVersion = v2
               /\ plan.status = "planned"
               /\ \A i \in 1..Len(plan.steps) : plan.steps[i].status = "pending"]_vars

\* C18 witness: a plan is stored for a pair whose comparison has breaking
\* changes and the score 0.
C18_Witness ==
  /\ Planned
  /\ CompareReport(versions, result.version[1], result.version[2]).score = 0
  /\ ~CompareReport(versions, result.version[1], result.version[2]).compatible
  /\ \E plan \in returned :
       /\ migrationPlans[plan.id] = plan
       /\ plan.status = "planned"

\* C19: the plan createMigrationPlan returns and stores contains the
\* compatibility report of its pair of versions.
C19_PlanContainsReport ==
  Planned =>
    \A plan \in returned :
      /\ migrationPlans[plan.id] = plan
      /\ "compatibilityReport" \in DOMAIN plan
      /\ plan.compatibilityReport
           = CompareReport(versions, plan.fromVersion, plan.toVersion)

\* The identifiers and the names of the steps of a plan, in their order.
StepIds(plan) == [i \in 1..Len(plan.steps) |-> plan.steps[i].id]

StepNames(plan) == [i \in 1..Len(plan.steps) |-> plan.steps[i].name]

\* The first step depends on nothing and every later step on the step
\* before it and on no other.
Chained(plan) ==
  \A i \in 1..Len(plan.steps) :
    plan.steps[i].dependencies
      = (IF i = 1 THEN <<>> ELSE <<plan.steps[i - 1].id>>)

\* C20: a plan of strategy canary has the five steps prepare, deploy-10%,
\* increase-50%, full-deployment, cleanup in this order, a plan of strategy
\* blue-green the four steps prepare, deploy-green, switch-traffic, cleanup;
\* in both the first step has no dependency and every later step depends on
\* the step before it alone, whatever the report.
C20_CanaryAndBlueGreenSteps ==
  \A id \in DOMAIN migrationPlans :
    /\ migrationPlans[id].strategy = "canary" =>
         /\ StepIds(migrationPlans[id])
              = <<"prep-1", "deploy-1", "deploy-2", "deploy-3", "cleanup-1">>
         /\ StepNames(migrationPlans[id])
              = <<"Pre-deployment Validation", "Deploy Canary (10%)",
                  "Increase to 50%", "Full Deployment", "Cleanup Old Resources">>
         /\ Chained(migrationPlans[id])
    /\ migrationPlans[id].strategy = "blue-green" =>
         /\ StepIds(migrationPlans[id])
              = <<"prep-1", "deploy-1", "deploy-2", "cleanup-1">>
         /\ StepNames(migrationPlans[id])
              = <<"Pre-deployment Validation", "Deploy Green Environment",
                  "Switch Traffic", "Cleanup Old Resources">>
         /\ Chained(migrationPlans[id])

\* C20 witness: a canary plan of five steps made for a pair with breaking
\* changes, the same pair in the other order having none.
C20_Witness ==
  /\ Planned
  /\ \E plan \in returned :
       /\ plan.strategy = "canary"
       /\ Len(plan.steps) = 5
       /\ CompareReport(versions, plan.fromVersion, plan.toVersion).breakingChanges
            # <<>>
       /\ CompareReport(versions, plan.toVersion, plan.fromVersion).breakingChanges
            = <<>>

\* C21: for every strategy, one of the four or another string, the first
\* step of the plan is the preparation step 'Pre-deployment Validation', the
\* last is the cleanup step 'Cleanup Old Resources', the steps have
\* identifiers of their own, and the cleanup step depends on the step before
\* it and on nothing else.
C21_PreparationFirstCleanupLast ==
  \A id \in DOMAIN migrationPlans :
    LET steps == migrationPlans[id].steps
    IN  /\ Len(steps) >= 2
        /\ steps[1].name = "Pre-deployment Validation"
        /\ steps[1].type = "preparation"
        /\ steps[Len(steps)].name = "Cleanup Old Resources"
        /\ steps[Len(steps)].type = "cleanup"
        /\ \A i, j \in 1..Len(steps) : steps[i].id = steps[j].id => i = j
        /\ steps[Len(steps)].dependencies = <<steps[Len(steps) - 1].id>>

\* C21 witness: a plan made with a strategy that is none of the four, of the
\* two steps alone.
C21_Witness ==
  /\ Planned
  /\ \E plan \in returned :
       /\ plan.strategy = "other"
       /\ StepIds(plan) = <<"prep-1", "cleanup-1">>
       /\ plan.steps[2].dependencies = <<"prep-1">>

\* C22: a plan of strategy rolling or immediate has a step of type deployment
\* between its preparation step and its cleanup step.
C22_RollingAndImmediateDeploy ==
  \A id \in DOMAIN migrationPlans :
    migrationPlans[id].strategy \in {"rolling", "immediate"} =>
      \E i \in 2..(Len(migrationPlans[id].steps) - 1) :
        migrationPlans[id].steps[i].type = "deployment"

----------------------------------------------------------------------------
(* The frame of the operations                                             *)

\* Every operation of the service on two versions of an api.
FrameCreateInputs ==
  {Body(v, "t1", s, doc, {}) :
     v \in CompareVersionInputs, s \in {"draft", "published"},
     doc \in MigrateDocuments}

NextFrame ==
  \/ \E d \in FrameCreateInputs : CreateVersion(d)
  \/ \E v \in CompareVersionInputs : DeprecateVersion(v, CallerPlan)
  \/ \E v \in CompareVersionInputs : RetireVersion(v)
  \/ \E v1, v2 \in CompareVersionInputs : CompareVersions(v1, v2)
  \/ \E v1, v2 \in CompareVersionInputs :
       CreateMigrationPlan(v1, v2, "canary", "r1")
  \/ \E n \in 0..MaxPolicy : PutLifecyclePolicy(n)

SpecFrame == Init /\ [][NextFrame]_vars

\* C23: a stored record keeps its version, its specification and its
\* compatibilityLevel through every call; a deprecation, by deprecateVersion
\* or by the lifecycle policy of createVersion, changes status, deprecatedAt
\* and deprecationPlan of a record and nothing else of it, retireVersion
\* changes status and retiredAt and nothing else, neither of the two calls
\* touches a record other than its target, and compareVersions and
\* createMigrationPlan touch none.
C23_FrameOfRecords ==
  [][\A v \in DOMAIN versions :
       /\ v \in DOMAIN versions'
       /\ versions'[v].version = versions[v].version
       /\ versions'[v].specification = versions[v].specification
       /\ versions'[v].compatibilityLevel = versions[v].compatibilityLevel
       /\ result'.op \in {"compareVersions", "createMigrationPlan"}
            => versions'[v] = versions[v]
       /\ result'.op \in {"deprecateVersion", "retireVersion"}
            => (v # result'.version => versions'[v] = versions[v])
       /\ result'.op \in {"deprecateVersion", "createVersion"}
            => versions'[v]
                 = [versions[v] EXCEPT
                      !.status = versions'[v].status,
                      !.deprecatedAt = versions'[v].deprecatedAt,
                      !.deprecationPlan = versions'[v].deprecationPlan]
       /\ result'.op = "retireVersion"
            => versions'[v]
                 = [versions[v] EXCEPT
                      !.status = versions'[v].status,
                      !.retiredAt = versions'[v].retiredAt]]_vars

\* C23 witness: a version of level major has been deprecated and retired
\* beside a version the lifecycle policy has deprecated, and both have the
\* specification and the level they were created with.
C23_Witness ==
  \E v, w \in DOMAIN versions :
    /\ result = Outcome("retireVersion", v, Ok)
    /\ versions[v].status = "retired"
    /\ versions[v].compatibilityLevel = "major"
    /\ versions[w].status = "deprecated"
    /\ \E plan \in versions[w].deprecationPlan : plan.replacementVersion = {v}
    /\ versions[w].specification # versions[v].specification

----------------------------------------------------------------------------
(* Further properties of createVersion                                     *)

\* C27: the lifecycle policy of a createVersion does not deprecate the
\* version the call has created: every record it deprecates has a plan whose
\* replacementVersion is the created version and not the record's own, and
\* the record the call returns has the status of the stored record.
C27_PolicySparesCreatedVersion ==
  [][(Called("createVersion") /\ result'.error = Ok) =>
       /\ \A rec \in returned' :
            rec.status = versions'[result'.version].status
       /\ \A v \in DOMAIN versions' :
            /\ versions'[v].status = "deprecated"
            /\ v \in DOMAIN versions => versions[v].status = "published"
            /\ v \notin DOMAIN versions =>
                 \A rec \in returned' : rec.status = "published"
            => /\ v # result'.version
               /\ \A plan \in versions'[v].deprecationPlan :
                    plan.replacementVersion = {result'.version}]_vars

\* C29: with the calls run one at a time, a record in status draft stays in
\* status draft through every call: no operation publishes, deprecates or
\* retires it, so that a record in another status was created with it or
\* came to it from published or deprecated.
C29_DraftStaysDraft ==
  [][\A v \in DOMAIN versions :
       versions[v].status = "draft" =>
         /\ v \in DOMAIN versions'
         /\ versions'[v].status = "draft"]_vars

\* C29 witness: deprecateVersion and retireVersion have failed on a draft,
\* the second after the first, under a lifecycle policy that has deprecated
\* a published version while the draft was stored.
C29_Witness ==
  \E v, w \in DOMAIN versions :
    /\ versions[v].status = "draft"
    /\ result = Outcome("retireVersion", v, "InvalidTransition")
    /\ versions[w].status = "deprecated"
    /\ \E plan \in versions[w].deprecationPlan :
         plan.reason = "Exceeded maximum version policy"

\* C30: a createVersion call made for a tenant leaves the version records
\* of every other tenant as they were: the lifecycle policy it applies
\* changes the status of the calling tenant's records only.
C30_TenantIsolation ==
  [][(Called("createVersion") /\ result'.error = Ok) =>
       \A rec \in returned' :
         \A v \in DOMAIN versions :
           versions[v].tenantId # rec.tenantId =>
             versions'[v] = versions[v]]_vars

----------------------------------------------------------------------------
(* createVersion when the object store fails                               *)

\* createVersion whose storeSpecification rejects: the PutObject of the
\* specification fails after the PutItem of the record has been done, the
\* error leaves createVersion before applyLifecyclePolicy is called.
CreateVersionStoreFails(d) ==
  /\ SemverValid(d.version)
  /\ ~VersionExists(versions, d.version)
  /\ Cardinality(DOMAIN versions) < MaxStored
  /\ versions' = Put(versions, d.version, NewRecord(versions, d))
  /\ result' = Outcome("createVersion", d.version, "StoreFailed")
  /\ returned' = {}
  /\ UNCHANGED <<specifications, policy, now, notifications, removed,
                 migrationPlans, calls>>

\* The service with an object store that may fail.
NextFailures ==
  \/ \E d \in CreateInputs : CreateVersion(d)
  \/ \E d \in CreateInputs : CreateVersionStoreFails(d)
  \/ \E v \in VersionInputs : DeprecateVersion(v, CallerPlan)
  \/ \E n \in 0..MaxPolicy : PutLifecyclePolicy(n)

SpecFailures == Init /\ [][NextFailures]_vars

\* C28: a createVersion that returns an error has left the version store as
\* it was: no record stored for the version that was not there before the
\* call, and no status of another version changed.
C28_CreateAllOrNothing ==
  [][(Called("createVersion") /\ result'.error # Ok) =>
       /\ DOMAIN versions' = DOMAIN versions
       /\ \A v \in DOMAIN versions :
            versions'[v].status = versions[v].status]_vars

----------------------------------------------------------------------------
(* Calls in flight at the same time                                        *)

\* Each call awaits every request it sends to the tables; the requests of
\* the calls in flight reach the tables in any order.  A call takes one step
\* for each request that reads or writes the versions table, the
\* specifications or the policy, and does what lies between two requests
\* together with the second.  The stubs sendDeprecationNotification and
\* removeDeployment run with the update they follow.

\* A call in flight: pc names the request it sends next, body is the
\* versionData of a createVersion, apiVersion the record a call has built or
\* read, pol the policy applyLifecyclePolicy has read, todo the versions
\* still to deprecate, plan the deprecationPlan of the deprecateVersion that
\* is running.
Call(op, version, pc, body, apiVersion, pol, todo, plan) ==
  [pc |-> pc, op |-> op, version |-> version, body |-> body,
   apiVersion |-> apiVersion, pol |-> pol, todo |-> todo, plan |-> plan]

\* A call that has returned or thrown; put says whether it has done the
\* PutItem of a new record.
Done(op, version, error, put) ==
  [pc |-> "done", op |-> op, version |-> version, error |-> error,
   put |-> put]

\* The client has no call in flight.
Free(c) == calls[c].pc \in {"idle", "done"}

\* createVersion up to the answer of getVersion.
CreateGetVersion(c, d) ==
  /\ Free(c)
  /\ IF ~SemverValid(d.version) \/ VersionExists(versions, d.version)
       THEN /\ calls' = [calls EXCEPT ![c] =
                  Done("createVersion", d.version,
                       IF ~SemverValid(d.version)
                         THEN "InvalidVersionFormat"
                         ELSE "DuplicateVersion", FALSE)]
            /\ result' = Outcome("createVersion", d.version,
                                 calls'[c].error)
            /\ returned' = {}
       ELSE /\ calls' = [calls EXCEPT ![c] =
                  Call("createVersion", d.version, "getLatestVersion", {d},
                       {}, {}, <<>>, {})]
            /\ UNCHANGED <<result, returned>>
  /\ UNCHANGED <<versions, specifications, policy, now, notifications,
                 removed, migrationPlans>>

\* The answer of getLatestVersion: the call builds its record.
CreateGetLatestVersion(c) ==
  /\ calls[c].pc = "getLatestVersion"
  /\ calls' = [calls EXCEPT ![c] =
       [@ EXCEPT !.pc = "PutItem",
                 !.apiVersion = {NewRecord(versions, d) :
                                  d \in calls[c].body}]]
  /\ UNCHANGED <<versions, specifications, policy, now, notifications,
                 removed, migrationPlans, result, returned>>

\* The PutItem of createVersion: no condition, the item replaces a stored
\* one.
CreatePutItem(c) ==
  /\ calls[c].pc = "PutItem"
  /\ \/ calls[c].version \in DOMAIN versions
     \/ Cardinality(DOMAIN versions) < MaxStored
  /\ versions' = Put(versions, calls[c].version,
                     CHOOSE rec \in calls[c].apiVersion : TRUE)
  /\ calls' = [calls EXCEPT ![c] = [@ EXCEPT !.pc = "PutObject"]]
  /\ UNCHANGED <<specifications, policy, now, notifications, removed,
                 migrationPlans, result, returned>>

\* The PutObject of storeSpecification.
CreateStoreSpecification(c) ==
  /\ calls[c].pc = "PutObject"
  /\ specifications' =
       Put(specifications,
           <<(CHOOSE rec \in calls[c].apiVersion : TRUE).tenantId,
             calls[c].version>>,
           (CHOOSE rec \in calls[c].apiVersion : TRUE).specification)
  /\ calls' = [calls EXCEPT ![c] = [@ EXCEPT !.pc = "getLifecyclePolicy"]]
  /\ UNCHANGED <<versions, policy, now, notifications, removed,
                 migrationPlans, result, returned>>

\* The answer of getLifecyclePolicy: without a policy createVersion returns
\* its record.
CreateGetLifecyclePolicy(c) ==
  /\ calls[c].pc = "getLifecyclePolicy"
  /\ IF policy = {}
       THEN /\ calls' = [calls EXCEPT ![c] =
                  Done("createVersion", @.version, Ok, TRUE)]
            /\ result' = Outcome("createVersion", calls[c].version, Ok)
            /\ returned' = calls[c].apiVersion
       ELSE /\ calls' = [calls EXCEPT ![c] =
                  [@ EXCEPT !.pc = "getVersions", !.pol = policy]]
            /\ UNCHANGED <<result, returned>>
  /\ UNCHANGED <<versions, specifications, policy, now, notifications,
                 removed, migrationPlans>>

\* The versions applyLifecyclePolicy selects from the answer of getVersions
\* under the policy p.
SelectedVersions(table, p) ==
  LET activeVersions == SelectSeq(GetVersions(table),
                                  LAMBDA r : r.status = "published")
      toDeprecate == IF Len(activeVersions) > p.maxVersions
                       THEN ToDeprecate(activeVersions, p.maxVersions)
                       ELSE <<>>
  IN  [i \in 1..Len(toDeprecate) |-> toDeprecate[i].version]

\* The answer of getVersions: the call selects the versions to deprecate,
\* and returns when there is none.
CreateGetVersions(c) ==
  /\ calls[c].pc = "getVersions"
  /\ calls' = [calls EXCEPT ![c] =
       IF SelectedVersions(versions, CHOOSE p \in @.pol : TRUE) = <<>>
         THEN Done("createVersion", @.version, Ok, TRUE)
         ELSE [@ EXCEPT !.pc = "getVersion",
                        !.todo = SelectedVersions(
                                   versions,
                                   CHOOSE p \in calls[c].pol : TRUE)]]
  /\ IF calls'[c].pc = "done"
       THEN /\ result' = Outcome("createVersion", calls[c].version, Ok)
            /\ returned' = calls[c].apiVersion
       ELSE UNCHANGED <<result, returned>>
  /\ UNCHANGED <<versions, specifications, policy, now, notifications,
                 removed, migrationPlans>>

\* deprecateVersion called by applyLifecyclePolicy, up to the answer of
\* getVersion: its error leaves createVersion.
PolicyDeprecateGetVersion(c) ==
  /\ calls[c].pc = "getVersion"
  /\ calls' = [calls EXCEPT ![c] =
       IF DeprecateCheck(versions, Head(@.todo)) # Ok
         THEN Done("createVersion", @.version,
                   DeprecateCheck(versions, Head(@.todo)), TRUE)
         ELSE [@ EXCEPT !.pc = "UpdateItem",
                        !.plan = {PolicyPlan(p, calls[c].version, now) :
                                    p \in calls[c].pol}]]
  /\ IF calls'[c].pc = "done"
       THEN /\ result' = Outcome("createVersion", calls[c].version,
                                 calls'[c].error)
            /\ returned' = {}
       ELSE UNCHANGED <<result, returned>>
  /\ UNCHANGED <<versions, specifications, policy, now, notifications,
                 removed, migrationPlans>>

\* deprecateVersion called by a client, up to the answer of getVersion.
DeprecateGetVersion(c, v, plan) ==
  /\ Free(c)
  /\ calls' = [calls EXCEPT ![c] =
       IF DeprecateCheck(versions, v) # Ok
         THEN Done("deprecateVersion", v, DeprecateCheck(versions, v), FALSE)
         ELSE Call("deprecateVersion", v, "UpdateItem", {}, {}, {}, <<v>>,
                   {plan})]
  /\ IF calls'[c].pc = "done"
       THEN /\ result' = Outcome("deprecateVersion", v, calls'[c].error)
            /\ returned' = {}
       ELSE UNCHANGED <<result, returned>>
  /\ UNCHANGED <<versions, specifications, policy, now, notifications,
                 removed, migrationPlans>>

\* The call after the UpdateItem of a deprecateVersion: a deprecateVersion
\* returns, applyLifecyclePolicy goes on to the next version and
\* createVersion returns after the last.
AfterDeprecate(call) ==
  IF call.op = "deprecateVersion"
    THEN Done("deprecateVersion", call.version, Ok, FALSE)
  ELSE IF Tail(call.todo) = <<>>
    THEN Done("createVersion", call.version, Ok, TRUE)
  ELSE [call EXCEPT !.pc = "getVersion", !.todo = Tail(@), !.plan = {}]

\* The UpdateItem of deprecateVersion, without a condition on the status it
\* has read, and the notification.
DeprecateUpdateItem(c) ==
  /\ calls[c].pc = "UpdateItem"
  /\ calls[c].op \in {"deprecateVersion", "createVersion"}
  /\ versions' = DeprecateUpdate(versions, Head(calls[c].todo),
                                 CHOOSE plan \in calls[c].plan : TRUE, now)
  /\ notifications' = notifications \cup {Head(calls[c].todo)}
  /\ calls' = [calls EXCEPT ![c] = AfterDeprecate(@)]
  /\ IF calls'[c].pc = "done"
       THEN /\ result' = Outcome(calls[c].op, calls[c].version, Ok)
            /\ returned' = IF calls[c].op = "createVersion"
                             THEN calls[c].apiVersion ELSE {}
       ELSE UNCHANGED <<result, returned>>
  /\ UNCHANGED <<specifications, policy, now, removed, migrationPlans>>

\* retireVersion up to the answer of getVersion.
RetireGetVersion(c, v) ==
  /\ Free(c)
  /\ calls' = [calls EXCEPT ![c] =
       IF RetireCheck(versions, v) # Ok
         THEN Done("retireVersion", v, RetireCheck(versions, v), FALSE)
         ELSE Call("retireVersion", v, "UpdateItem", {}, {versions[v]}, {},
                   <<>>, {})]
  /\ IF calls'[c].pc = "done"
       THEN /\ result' = Outcome("retireVersion", v, calls'[c].error)
            /\ returned' = {}
       ELSE UNCHANGED <<result, returned>>
  /\ UNCHANGED <<versions, specifications, policy, now, notifications,
                 removed, migrationPlans>>

\* The UpdateItem of retireVersion, without a condition on the status it
\* has read, and removeDeployment of the record it has read.
RetireUpdateItem(c) ==
  /\ calls[c].pc = "UpdateItem"
  /\ calls[c].op = "retireVersion"
  /\ versions' = RetireUpdate(versions, calls[c].version, now)
  /\ removed' = IF \A rec \in calls[c].apiVersion : RemoveDeployment(rec) = Ok
                  THEN removed \cup {calls[c].version} ELSE removed
  /\ calls' = [calls EXCEPT ![c] =
       Done("retireVersion", @.version,
            RemoveDeployment(CHOOSE rec \in @.apiVersion : TRUE), FALSE)]
  /\ result' = Outcome("retireVersion", calls[c].version, calls'[c].error)
  /\ returned' = {}
  /\ UNCHANGED <<specifications, policy, now, notifications, migrationPlans>>

\* Two clients, two versions of one api created published, a lifecycle
\* policy that is stored before the calls or not at all.
ConcurrentVersionInputs == {s100, s200}

ConcurrentCreateInputs ==
  {Body(v, "t1", s, "specA", {}) :
     v \in ConcurrentVersionInputs, s \in {"published"}}

PolicyInputs ==
  {{}} \cup {{[maxVersions |-> n, supportPeriod |-> SupportPeriod]} :
               n \in 0..MaxPolicy}

InitConcurrent ==
  /\ versions = <<>>
  /\ specifications = <<>>
  /\ policy \in PolicyInputs
  /\ now = 0
  /\ notifications = {}
  /\ removed = {}
  /\ migrationPlans = <<>>
  /\ result = Outcome("none", <<>>, Ok)
  /\ returned = {}
  /\ calls = [c \in Clients |-> Idle]

NextConcurrent ==
  \E c \in Clients :
    \/ \E d \in ConcurrentCreateInputs : CreateGetVersion(c, d)
    \/ CreateGetLatestVersion(c)
    \/ CreatePutItem(c)
    \/ CreateStoreSpecification(c)
    \/ CreateGetLifecyclePolicy(c)
    \/ CreateGetVersions(c)
    \/ PolicyDeprecateGetVersion(c)
    \/ \E v \in ConcurrentVersionInputs : DeprecateGetVersion(c, v, CallerPlan)
    \/ DeprecateUpdateItem(c)
    \/ \E v \in ConcurrentVersionInputs : RetireGetVersion(c, v)
    \/ RetireUpdateItem(c)

SpecConcurrent == InitConcurrent /\ [][NextConcurrent]_vars

\* The createVersion calls of two clients alone.
CreatesInputs ==
  {Body(v, "t1", s, "specA", {}) :
     v \in ConcurrentVersionInputs, s \in {"draft", "published"}}

NextConcurrentCreates ==
  \E c \in Clients :
    \/ \E d \in CreatesInputs : CreateGetVersion(c, d)
    \/ CreateGetLatestVersion(c)
    \/ CreatePutItem(c)
    \/ CreateStoreSpecification(c)
    \/ CreateGetLifecyclePolicy(c)
    \/ CreateGetVersions(c)
    \/ PolicyDeprecateGetVersion(c)
    \/ DeprecateUpdateItem(c)

SpecConcurrentCreates == InitConcurrent /\ [][NextConcurrentCreates]_vars

\* C24: in every interleaving of the calls, the stored status of a version
\* never moves backward: a stored version stays stored, in its status or in
\* a later one of draft, published, deprecated, retired.
C24_StatusForwardInEveryInterleaving ==
  [][\A v \in DOMAIN versions :
       /\ v \in DOMAIN versions'
       /\ Rank(versions'[v].status) >= Rank(versions[v].status)]_vars

\* C25: after every step, of two createVersion calls for one version that
\* have ended, one at most has returned its record and the other has thrown
\* 'Version already exists'; and the PutItem of a createVersion never
\* replaces a stored record.
C25_OneCreateWins ==
  [][/\ \A c1, c2 \in Clients :
          /\ c1 # c2
          /\ calls'[c1].pc = "done" /\ calls'[c1].op = "createVersion"
          /\ calls'[c2].pc = "done" /\ calls'[c2].op = "createVersion"
          /\ calls'[c1].version = calls'[c2].version
          /\ calls'[c1].error = Ok
          => calls'[c2].error = "DuplicateVersion"
     /\ \A c \in Clients :
          calls[c].pc = "PutItem" /\ calls'[c].pc = "PutObject" =>
            calls[c].version \notin DOMAIN versions]_vars

\* C26: under a lifecycle policy with maxVersions = N, when no call is in
\* flight, at most N versions are published, and every createVersion that
\* has put its record has returned without an error.
C26_PolicyHoldsAfterConcurrentCreates ==
  \A p \in policy :
    (\A c \in Clients : Free(c)) =>
      /\ Cardinality(Published(versions)) <= p.maxVersions
      /\ \A c \in Clients :
           calls[c].pc = "done" /\ calls[c].op = "createVersion"
             /\ calls[c].put
           => calls[c].error = Ok

====
